---- MODULE Spec2Model ----
(***************************************************************************)
(* DeepShield orchestration core: the analysis invoker (analyzeContent),   *)
(* and the live sampling scheduler of the Scanner component                *)
(* (captureAndAnalyze / startMonitoring / stopMonitoring).                 *)
(*                                                                         *)
(* The repository holds several revisions of the same units side by side:  *)
(*   analyzeContent   "retry"        src/unnamed/part_002 lines 194-347    *)
(*                    "defaults"     src/unnamed/part_002 lines 9-144      *)
(*                    "clamped"      src/services/aiService.ts 9-144       *)
(*                    "passthrough"  src/services/aiService.ts 156-271     *)
(*   Scanner          "tsx"          src/components/Scanner.tsx            *)
(*                    "part1"        src/unnamed/part_001                  *)
(* Every revision is modelled; the variable svc (resp. scanner) says which *)
(* one a behaviour runs.                                                   *)
(***************************************************************************)
EXTENDS Integers, Sequences, FiniteSets, TLC

VARIABLES
  \* ---- analyzeContent (one call) ----
  svc,          \* which revision of analyzeContent runs
  isLive,       \* parameter isLive
  activeModel,  \* let activeModel
  attempt,      \* let attempt
  ipc,          \* position of the call: idle, await, sleep, done
  remoteLog,    \* models passed to generateContent, one per remote call
  sleeps,       \* durations passed to sleep(), in order
  progress,     \* messages passed to onProgress, in order
  settled,      \* kinds the remote calls settled with, in order
  lastResponse, \* what the last remote call settled with
  thrown,       \* message of the Error the call rejected with ("" = none)
  returned,     \* the AnalysisResult the call resolved with
  \* ---- Scanner, live monitoring ----
  scanner,            \* which revision of the Scanner component runs
  lsvc,               \* the analyzeContent revision that Scanner imports
  isStreamingRef,     \* isStreamingRef.current
  isStreaming,        \* useState isStreaming
  isAuthorizing,      \* useState isAuthorizing
  isAnalyzingLive,    \* useState isAnalyzingLive
  isCoolingDown,      \* useState isCoolingDown (part1 only)
  lastScanWasSafe,    \* useState lastScanWasSafe
  liveThreatScore,    \* useState liveThreatScore, a JS number
  liveAlert,          \* useState liveAlert # null (tsx only)
  samplingTimeoutRef, \* samplingTimeoutRef.current, 0 for null
  timers,             \* pending window.setTimeout(captureAndAnalyze, delay)
  cooldownTimers,     \* pending setTimeout(() => setIsCoolingDown(false), 30000)
  acquiring,          \* startMonitoring calls awaiting getUserMedia / getDisplayMedia
  video,              \* the <video> element behind liveVideoRef
  inflight,           \* live analyzeContent calls not yet settled
  reports,            \* number of onComplete(res) calls (saveReport)
  issued,             \* number of live analyzeContent calls made so far
  startCount,         \* number of startMonitoring calls so far
  stopped,            \* stopMonitoring has run and startMonitoring has not been called since
  appliedRes,         \* the verdict the step just taken applied to the live state, if any
  \* ---- Scanner, batch queue ----
  tasks,              \* the queue: useState tasks (tsx), App's verificationQueue (part1)
  isBatchRunning,     \* useState isBatchRunning of the mounted Scanner
  instance,           \* which mount of the Scanner component is the current one
  runs,               \* processBatch calls that are past their guard and not yet returned
  forwarded,          \* per task id, the number of onComplete(res) calls made for it
  nextTaskId          \* number of files added so far (task ids are 1, 2, ...)

invokerVars == <<svc, isLive, activeModel, attempt, ipc, remoteLog, sleeps,
                 progress, settled, lastResponse, thrown, returned>>

liveVars == <<scanner, lsvc, isStreamingRef, isStreaming, isAuthorizing, isAnalyzingLive,
              isCoolingDown, lastScanWasSafe, liveThreatScore, liveAlert,
              samplingTimeoutRef, timers, cooldownTimers, acquiring, video, inflight,
              reports, issued, startCount, stopped, appliedRes>>

batchVars == <<tasks, isBatchRunning, instance, runs, forwarded, nextTaskId>>

vars == <<invokerVars, liveVars, batchVars>>

-----------------------------------------------------------------------------
(* Program constants *)

MAX_RETRIES == 2
INITIAL_BACKOFF == 2000

Pro == "gemini-3-pro-preview"
Flash == "gemini-3-flash-preview"

QuotaMsg == "API Quota Exhausted. Use a different key or wait 60s."
AbortedMsg == "Forensic analysis aborted: ..."
TimeoutMsg == "Neural Core connection timeout."

\* the Error thrown by the catch block of the single-attempt revisions
EngineMsg(s) ==
  CASE s = "defaults" ->
         "Neural Engine failed to interpret the artifact. Check network status or API key."
    [] s = "clamped" ->
         "The Neural Core was unable to process this artifact. Check your connection or API configuration."
    [] OTHER ->
         "Neural Engine failed to interpret the artifact. Check network status."

Services == {"retry", "defaults", "clamped", "passthrough"}

-----------------------------------------------------------------------------
(* The remote service: what one generateContent call can settle with.      *)
(* kind "json"    the text parses to an object with the fields given       *)
(*      "empty"   the text is empty or absent (parsed as "{}")             *)
(*      "garbage" the text is not JSON (JSON.parse throws)                 *)
(*      "err429"  the call rejects with a 429 / quota error                *)
(*      "errOther" the call rejects with any other error                   *)
(* classification "" stands for a missing (or empty) classification field; *)
(* hasScore = FALSE for a missing authenticityScore field.                 *)

RawClasses == {"AUTHENTIC", "SUSPICIOUS", "FAKE", "BOGUS", ""}
RawScores == {-10, 12, 59, 60, 72, 73, 95, 140}

NoFields == [classification |-> "", hasScore |-> FALSE, authenticityScore |-> 0]

Responses ==
  {[kind |-> "json", classification |-> c, hasScore |-> TRUE, authenticityScore |-> s] :
      c \in RawClasses, s \in RawScores}
  \cup {[kind |-> "json", classification |-> c, hasScore |-> FALSE, authenticityScore |-> 0] :
      c \in RawClasses}
  \cup {[kind |-> k] @@ NoFields : k \in {"empty", "garbage", "err429", "errOther"}}

NoResponse == [kind |-> "none"] @@ NoFields

(* An AnalysisResult, reduced to the fields the drivers read.              *)
(* scoreIsNumber = FALSE models authenticityScore === undefined.           *)
NoVerdict == [classification |-> "none", authenticityScore |-> 0, scoreIsNumber |-> FALSE]

Min(a, b) == IF a < b THEN a ELSE b
Max(a, b) == IF a > b THEN a ELSE b

RECURSIVE Pow2(_)
Pow2(n) == IF n <= 0 THEN 1 ELSE 2 * Pow2(n - 1)

-----------------------------------------------------------------------------
(* analyzeContent: the object built after a successful parse *)

\* `(forensicData.classification as Classification) || Classification.SUSPICIOUS`
\* (a cast checks nothing at run time); the passthrough revision has no `||`.
NormalizeClassification(s, r) ==
  IF s = "passthrough" THEN r.classification
  ELSE IF r.classification = "" THEN "SUSPICIOUS" ELSE r.classification

\* `forensicData.authenticityScore ?? 50`
ScoreOrDefault(r) == IF r.hasScore THEN r.authenticityScore ELSE 50

\* `Math.min(100, Math.max(0, x))`
Clamp(x) == Min(100, Max(0, x))

NormalizeScore(s, r) ==
  CASE s \in {"retry", "clamped"} -> Clamp(ScoreOrDefault(r))
    [] s = "defaults"             -> ScoreOrDefault(r)
    [] OTHER                      -> r.authenticityScore

BuildResult(s, r) ==
  [classification    |-> NormalizeClassification(s, r),
   authenticityScore |-> NormalizeScore(s, r),
   scoreIsNumber     |-> (s # "passthrough") \/ r.hasScore]

\* JSON.parse(response.text || "{}") succeeds
Parses(r) == r.kind \in {"json", "empty"}

\* variant: no failure is taken for a rate limit
IsRateLimit_Never(r) == FALSE

\* errorMsg.includes('429') || error?.status === 429
IsRateLimit(r) == r.kind = "err429"

-----------------------------------------------------------------------------
(* analyzeContent: control flow *)

InitialModel(s, live) ==
  IF s = "retry" THEN (IF live THEN Flash ELSE Pro) ELSE Pro

\* the onProgress call made before a remote call (skipped when isLive)
ProgressMsg(s, n) ==
  IF s = "retry"
    THEN (IF n = 0 THEN "Initializing Neural Core..." ELSE "Re-calibrating via Fallback...")
    ELSE IF s = "clamped" THEN "Calibrating Forensic Sensors..."
    ELSE "Establishing Neural Link..."

\* variant: the pro tier is kept on a retry
Degrade_Never(m) == m

\* `if (activeModel.includes('pro')) activeModel = flash`
Degrade(m) == IF m = Pro THEN Flash ELSE m

\* `INITIAL_BACKOFF * Math.pow(2, attempt - 1)`, attempt already incremented
Backoff(n) == INITIAL_BACKOFF * Pow2(n - 1)

\* variant: one retry too many (`attempt <= MAX_RETRIES`)
MayRetry_OneMore(n) == n <= MAX_RETRIES

\* variant: one retry too few
MayRetry_OneLess(n) == n < MAX_RETRIES - 1

\* `attempt < MAX_RETRIES` in the catch block
MayRetry(n) == n < MAX_RETRIES

InvokerInit ==
  /\ svc = "retry"
  /\ isLive = FALSE
  /\ activeModel = Pro
  /\ attempt = 0
  /\ ipc = "idle"
  /\ remoteLog = <<>>
  /\ sleeps = <<>>
  /\ progress = <<>>
  /\ settled = <<>>
  /\ lastResponse = NoResponse
  /\ thrown = ""
  /\ returned = NoVerdict

\* analyzeContent is called: everything up to the first await generateContent
AnalyzeStart(s, live) ==
  /\ ipc = "idle"
  /\ svc' = s
  /\ isLive' = live
  /\ activeModel' = InitialModel(s, live)
  /\ attempt' = 0
  /\ progress' = IF live THEN progress ELSE Append(progress, ProgressMsg(s, 0))
  /\ remoteLog' = Append(remoteLog, InitialModel(s, live))
  /\ ipc' = "await"
  /\ UNCHANGED <<liveVars, batchVars, sleeps, settled, lastResponse, thrown, returned>>

\* generateContent settles and the text parses: the call returns the result
RemoteReturns(r) ==
  /\ ipc = "await"
  /\ Parses(r)
  /\ lastResponse' = r
  /\ settled' = Append(settled, r.kind)
  /\ returned' = BuildResult(svc, r)
  /\ ipc' = "done"
  /\ UNCHANGED <<liveVars, batchVars, svc, isLive, activeModel, attempt, remoteLog, sleeps, progress, thrown>>

\* generateContent rejects, or JSON.parse throws: the catch block
RemoteFails(r) ==
  /\ ipc = "await"
  /\ ~Parses(r)
  /\ lastResponse' = r
  /\ settled' = Append(settled, r.kind)
  /\ IF svc = "retry" /\ MayRetry(attempt)
       THEN /\ attempt' = attempt + 1
            /\ activeModel' = Degrade(activeModel)
            /\ sleeps' = Append(sleeps, Backoff(attempt + 1))
            /\ ipc' = "sleep"
            /\ UNCHANGED thrown
       ELSE /\ thrown' = IF svc = "retry"
                           THEN (IF IsRateLimit(r) THEN QuotaMsg ELSE AbortedMsg)
                           ELSE EngineMsg(svc)
            /\ ipc' = "done"
            /\ UNCHANGED <<attempt, activeModel, sleeps>>
  /\ UNCHANGED <<liveVars, batchVars, svc, isLive, remoteLog, progress, returned>>

\* sleep(backoff) resolves: `continue`, the loop test, and the next remote call
BackoffElapsed ==
  /\ ipc = "sleep"
  /\ IF attempt <= MAX_RETRIES
       THEN /\ progress' = IF isLive THEN progress
                           ELSE Append(progress, ProgressMsg(svc, attempt))
            /\ remoteLog' = Append(remoteLog, activeModel)
            /\ ipc' = "await"
            /\ UNCHANGED thrown
       ELSE /\ thrown' = TimeoutMsg
            /\ ipc' = "done"
            /\ UNCHANGED <<progress, remoteLog>>
  /\ UNCHANGED <<liveVars, batchVars, svc, isLive, activeModel, attempt, sleeps, settled, lastResponse, returned>>

InvokerNext ==
  \/ \E s \in Services, live \in BOOLEAN : AnalyzeStart(s, live)
  \/ \E r \in Responses : RemoteReturns(r)
  \/ \E r \in Responses : RemoteFails(r)
  \/ BackoffElapsed


-----------------------------------------------------------------------------
(* Scanner: live monitoring.                                               *)
(* Display-only state (scanCount, lastScanTime, threatTrend, activePhase,  *)
(* streamType, pendingType, error) is read by no code path and is left out.*)
(* React state is taken as committed between two handlers; a closure       *)
(* captures the state values of the render that created it.                *)

MaxStarts == 2     \* startMonitoring calls in one behaviour
MaxSamples == 3    \* live analyzeContent calls in one behaviour

Scanners == {"tsx", "part1"}

\* Scanner.tsx imports ../services/aiService.ts; part_001 imports
\* ../services/aiService and ../types, the units held in part_002.
ImportedBy(sc) ==
  IF sc = "tsx" THEN {"clamped", "passthrough"} ELSE {"retry", "defaults"}

\* the parsed responses the live path is run against
LiveClasses == {"AUTHENTIC", "SUSPICIOUS", "FAKE"}
LiveScores == {59, 60, 73, 140}

LiveResponses ==
  {r \in Responses :
     \/ r.kind = "empty"
     \/ /\ r.kind = "json"
        /\ r.classification \in LiveClasses
        /\ (r.hasScore => r.authenticityScore \in LiveScores)}

\* messages analyzeContent can reject with, per revision
LiveErrors(s) == IF s = "retry" THEN {QuotaMsg, AbortedMsg} ELSE {EngineMsg(s)}

\* `err.message?.includes("Quota")`
IncludesQuota(msg) == msg = QuotaMsg

\* a JS number: NaN, or an integer
Num(n) == [nan |-> FALSE, n |-> n]
NaN == [nan |-> TRUE, n |-> 0]

\* the captured isAnalyzingLive / isCoolingDown of a captureAndAnalyze closure
Closure(a, c) == [a |-> a, c |-> c]
NoClosure == Closure(FALSE, FALSE)

\* the closure the current render holds (useCallback deps, part1 line 88;
\* the tsx closure depends on onComplete only and reads no state)
CurrentClosure ==
  IF scanner = "part1" THEN Closure(isAnalyzingLive, isCoolingDown) ELSE NoClosure

NoVideo == [src |-> FALSE, metadataPending |-> FALSE, ready |-> FALSE, handler |-> NoClosure]

\* liveVideoRef.current # null: tsx renders <video> only while
\* (isStreaming || isAuthorizing); part1 renders it always
Mounted(streaming, authorizing) ==
  scanner = "part1" \/ streaming \/ authorizing

\* the element after the next render
Rendered(v, streaming, authorizing) ==
  IF Mounted(streaming, authorizing) THEN v ELSE NoVideo

\* `video.readyState < 2 || video.paused || video.ended || video.videoWidth === 0`
NotReady(v) == ~v.ready

TimerIds(ts) == {t.id : t \in ts}

\* window.setTimeout returns a handle no pending timer has; one that is also
\* not the stored handle stands for any fresh handle
FreshId(ts, ref) ==
  CHOOSE i \in 1..(Cardinality(ts) + 2) : i \notin TimerIds(ts) /\ i # ref

\* the scheduler's mutable parts, as captureAndAnalyze reads and writes them
Sampling == [timers |-> timers, ref |-> samplingTimeoutRef, inflight |-> inflight,
             analyzing |-> isAnalyzingLive, issued |-> issued]

\* `samplingTimeoutRef.current = window.setTimeout(captureAndAnalyze, delay)`
Schedule(st, cl, delay) ==
  LET id == FreshId(st.timers, st.ref) IN
  [st EXCEPT !.timers = @ \cup {[id |-> id, cl |-> cl, delay |-> delay]},
             !.ref = id]

\* A live analyzeContent call in flight, with the closure that awaits it.
\* History kept with it: stopMonitoring has run since it was issued (stale),
\* startMonitoring has been called since it was issued (prior).
NewCall(calls, cl) ==
  [id |-> CHOOSE i \in 1..(Cardinality(calls) + 1) : i \notin {c.id : c \in calls},
   cl |-> cl, stale |-> FALSE, prior |-> FALSE]

\* the guard on entry of captureAndAnalyze
\* tsx:   if (!isStreamingRef.current || !liveVideoRef.current) return;
\* part1: if (!isStreamingRef.current || !liveVideoRef.current || isAnalyzingLive || isCoolingDown) return;
EntryGuard(cl, streaming, mounted) ==
  /\ streaming
  /\ mounted
  /\ (scanner = "part1" => ~cl.a /\ ~cl.c)

\* variant: a frame that is not ready is handled like a failed attempt
Capture_NotReadyFails(cl, streaming, mounted, v, st) ==
  IF ~EntryGuard(cl, streaming, mounted) THEN st
  ELSE IF NotReady(v) THEN Schedule(st, cl, IF scanner = "tsx" THEN 2000 ELSE 8000)
  ELSE [st EXCEPT !.inflight = @ \cup {NewCall(st.inflight, cl)},
                  !.analyzing = TRUE,
                  !.issued = @ + 1]

\* captureAndAnalyze up to its await: returns, reschedules itself after 1 s
\* when the frame is not ready, or issues the live analyzeContent call
Capture(cl, streaming, mounted, v, st) ==
  IF ~EntryGuard(cl, streaming, mounted) THEN st
  ELSE IF NotReady(v) THEN Schedule(st, cl, 1000)
  ELSE [st EXCEPT !.inflight = @ \cup {NewCall(st.inflight, cl)},
                  !.analyzing = TRUE,
                  !.issued = @ + 1]

SetSampling(st) ==
  /\ timers' = st.timers
  /\ samplingTimeoutRef' = st.ref
  /\ inflight' = st.inflight
  /\ isAnalyzingLive' = st.analyzing
  /\ issued' = st.issued

\* the alert rule with the score bound taken inclusively
IsAlert_Inclusive(res) ==
  \/ res.classification = "FAKE"
  \/ (res.classification = "SUSPICIOUS" /\ res.scoreIsNumber /\ res.authenticityScore <= 60)

\* the alert rule of the live path
\* tsx 109-112:  isFake || isAtRisk;  part1 65
IsAlert(res) ==
  \/ res.classification = "FAKE"
  \/ (res.classification = "SUSPICIOUS" /\ res.scoreIsNumber /\ res.authenticityScore < 60)

\* `res.authenticityScore > 72` (tsx 117)
AboveRecovery(res) == res.scoreIsNumber /\ res.authenticityScore > 72

\* `100 - res.authenticityScore`
Threat(res) == IF res.scoreIsNumber THEN Num(100 - res.authenticityScore) ELSE NaN

\* lastScanWasSafe after a verdict is applied
SafeAfter(res, safe) ==
  IF IsAlert(res) THEN FALSE
  ELSE IF scanner = "tsx" THEN (IF AboveRecovery(res) THEN TRUE ELSE safe)
  ELSE TRUE

\* liveAlert # null after a verdict is applied (tsx only)
AlertAfter(res, alert) ==
  IF scanner # "tsx" THEN alert
  ELSE IF IsAlert(res) THEN TRUE
  ELSE IF AboveRecovery(res) THEN FALSE ELSE alert

\* delay of the next cycle after a settled call
NextDelay(ok) ==
  IF scanner = "tsx" THEN 2000 ELSE IF ok THEN 10000 ELSE 8000

LiveInit ==
  /\ scanner \in Scanners
  /\ lsvc \in ImportedBy(scanner)
  /\ isStreamingRef = FALSE
  /\ isStreaming = FALSE
  /\ isAuthorizing = FALSE
  /\ isAnalyzingLive = FALSE
  /\ isCoolingDown = FALSE
  /\ lastScanWasSafe = TRUE
  /\ liveThreatScore = Num(0)
  /\ liveAlert = FALSE
  /\ samplingTimeoutRef = 0
  /\ timers = {}
  /\ cooldownTimers = 0
  /\ acquiring = {}
  /\ video = NoVideo
  /\ inflight = {}
  /\ reports = 0
  /\ issued = 0
  /\ startCount = 0
  /\ stopped = FALSE
  /\ appliedRes = NoVerdict

\* startMonitoring up to its await on the media stream.  The buttons are
\* rendered while !isStreaming; tsx disables them while isAuthorizing.
StartMonitoring ==
  /\ ~isStreaming
  /\ scanner = "tsx" => ~isAuthorizing
  /\ startCount < MaxStarts
  /\ startCount' = startCount + 1
  /\ stopped' = FALSE
  /\ isAuthorizing' = TRUE
  /\ isStreaming' = IF scanner = "tsx" THEN TRUE ELSE isStreaming
  /\ acquiring' = acquiring \cup {[start |-> startCount + 1, cl |-> CurrentClosure]}
  /\ inflight' = {[c EXCEPT !.prior = TRUE] : c \in inflight}
  /\ appliedRes' = NoVerdict
  /\ UNCHANGED <<invokerVars, batchVars, scanner, lsvc, isStreamingRef, isAnalyzingLive, isCoolingDown,
                 lastScanWasSafe, liveThreatScore, liveAlert, samplingTimeoutRef, timers,
                 cooldownTimers, video, reports, issued>>

\* the stream arrives: the rest of the try block, and finally
AcquireResolves(q) ==
  /\ q \in acquiring
  /\ acquiring' = acquiring \ {q}
  /\ isAuthorizing' = FALSE
  /\ isStreaming' = IF scanner = "part1" THEN TRUE ELSE isStreaming
  /\ isStreamingRef' = IF scanner = "part1" THEN TRUE ELSE isStreamingRef
  /\ video' = Rendered(
       IF Mounted(isStreaming, isAuthorizing)
         THEN [src |-> TRUE, metadataPending |-> TRUE, ready |-> FALSE, handler |-> q.cl]
         ELSE video,
       isStreaming', isAuthorizing')
  /\ appliedRes' = NoVerdict
  /\ UNCHANGED <<invokerVars, batchVars, scanner, lsvc, isAnalyzingLive, isCoolingDown, lastScanWasSafe,
                 liveThreatScore, liveAlert, samplingTimeoutRef, timers, cooldownTimers,
                 inflight, reports, issued, startCount, stopped>>

\* the stream is refused (or media capture is unsupported): catch, and finally
AcquireRejects(q) ==
  /\ q \in acquiring
  /\ acquiring' = acquiring \ {q}
  /\ isStreaming' = FALSE
  /\ isAuthorizing' = FALSE
  /\ video' = Rendered(video, FALSE, FALSE)
  /\ appliedRes' = NoVerdict
  /\ UNCHANGED <<invokerVars, batchVars, scanner, lsvc, isStreamingRef, isAnalyzingLive, isCoolingDown,
                 lastScanWasSafe, liveThreatScore, liveAlert, samplingTimeoutRef, timers,
                 cooldownTimers, inflight, reports, issued, startCount, stopped>>

\* the element reports a decodable frame
VideoReady ==
  /\ video.src /\ ~video.ready
  /\ video' = [video EXCEPT !.ready = TRUE]
  /\ appliedRes' = NoVerdict
  /\ UNCHANGED <<invokerVars, batchVars, scanner, lsvc, isStreamingRef, isStreaming, isAuthorizing, isAnalyzingLive,
                 isCoolingDown, lastScanWasSafe, liveThreatScore, liveAlert,
                 samplingTimeoutRef, timers, cooldownTimers, acquiring, inflight, reports,
                 issued, startCount, stopped>>

\* video.onloadedmetadata: play(), (tsx: isStreamingRef.current = true,) captureAndAnalyze()
LoadedMetadata ==
  /\ video.metadataPending
  /\ issued < MaxSamples
  /\ video' = [video EXCEPT !.metadataPending = FALSE]
  /\ isStreamingRef' = IF scanner = "tsx" THEN TRUE ELSE isStreamingRef
  /\ SetSampling(Capture(video.handler, isStreamingRef',
                         Mounted(isStreaming, isAuthorizing), video, Sampling))
  /\ appliedRes' = NoVerdict
  /\ UNCHANGED <<invokerVars, batchVars, scanner, lsvc, isStreaming, isAuthorizing, isCoolingDown, lastScanWasSafe,
                 liveThreatScore, liveAlert, cooldownTimers, acquiring, reports,
                 startCount, stopped>>

\* a sampling timer fires: captureAndAnalyze runs in the closure that set it
TimerFires(t) ==
  /\ t \in timers
  /\ issued < MaxSamples
  /\ SetSampling(Capture(t.cl, isStreamingRef, Mounted(isStreaming, isAuthorizing), video,
                         [Sampling EXCEPT !.timers = @ \ {t}]))
  /\ appliedRes' = NoVerdict
  /\ UNCHANGED <<invokerVars, batchVars, scanner, lsvc, isStreamingRef, isStreaming, isAuthorizing, isCoolingDown,
                 lastScanWasSafe, liveThreatScore, liveAlert, cooldownTimers, acquiring,
                 video, reports, startCount, stopped>>

\* variant: the next cycle is set only after a call that resolved
AfterSettle_OnSuccessOnly(c, ok) ==
  LET st == [Sampling EXCEPT !.inflight = @ \ {c}, !.analyzing = FALSE] IN
  IF isStreamingRef /\ ok THEN Schedule(st, c.cl, NextDelay(ok)) ELSE st

\* the timer of the next cycle, set only `if (isStreamingRef.current)`
AfterSettle(c, ok) ==
  LET st == [Sampling EXCEPT !.inflight = @ \ {c}, !.analyzing = FALSE] IN
  IF isStreamingRef THEN Schedule(st, c.cl, NextDelay(ok)) ELSE st

\* a live analyzeContent call resolves with res: the code after the await
AnalysisResolves(c, r) ==
  /\ c \in inflight
  /\ Parses(r)
  /\ LET res == BuildResult(lsvc, r) IN
     IF isStreamingRef
       THEN /\ appliedRes' = res
            /\ liveThreatScore' = Threat(res)
            /\ lastScanWasSafe' = SafeAfter(res, lastScanWasSafe)
            /\ liveAlert' = AlertAfter(res, liveAlert)
            /\ reports' = IF IsAlert(res) THEN reports + 1 ELSE reports
       ELSE /\ appliedRes' = NoVerdict
            /\ UNCHANGED <<liveThreatScore, lastScanWasSafe, liveAlert, reports>>
  /\ SetSampling(AfterSettle(c, TRUE))
  /\ UNCHANGED <<invokerVars, batchVars, scanner, lsvc, isStreamingRef, isStreaming, isAuthorizing, isCoolingDown,
                 cooldownTimers, acquiring, video, startCount, stopped>>

\* a live analyzeContent call rejects with message msg: catch, and finally
AnalysisRejects(c, msg) ==
  /\ c \in inflight
  /\ msg \in LiveErrors(lsvc)
  /\ IF scanner = "part1" /\ IncludesQuota(msg)
       THEN /\ isCoolingDown' = TRUE
            /\ cooldownTimers' = cooldownTimers + 1
       ELSE UNCHANGED <<isCoolingDown, cooldownTimers>>
  /\ SetSampling(AfterSettle(c, FALSE))
  /\ appliedRes' = NoVerdict
  /\ UNCHANGED <<invokerVars, batchVars, scanner, lsvc, isStreamingRef, isStreaming, isAuthorizing, lastScanWasSafe,
                 liveThreatScore, liveAlert, acquiring, video, reports, startCount,
                 stopped>>

\* `setTimeout(() => setIsCoolingDown(false), 30000)` fires
CooldownExpires ==
  /\ cooldownTimers > 0
  /\ cooldownTimers' = cooldownTimers - 1
  /\ isCoolingDown' = FALSE
  /\ appliedRes' = NoVerdict
  /\ UNCHANGED <<invokerVars, batchVars, scanner, lsvc, isStreamingRef, isStreaming, isAuthorizing, isAnalyzingLive,
                 lastScanWasSafe, liveThreatScore, liveAlert, samplingTimeoutRef, timers,
                 acquiring, video, inflight, reports, issued, startCount, stopped>>

\* clearTimeout(samplingTimeoutRef.current)
ClearSamplingTimer(ts, ref) == {t \in ts : t.id # ref}

\* what stopMonitoring reads and writes
LiveState ==
  [ref |-> isStreamingRef, streaming |-> isStreaming, authorizing |-> isAuthorizing,
   timers |-> timers, handle |-> samplingTimeoutRef, video |-> video,
   alert |-> liveAlert, safe |-> lastScanWasSafe, threat |-> liveThreatScore,
   cooling |-> isCoolingDown]

\* variant: stopMonitoring cancels one pending timer, whichever it is
StopEffect_AnyTimer(st) ==
  [st EXCEPT !.ref = FALSE, !.streaming = FALSE, !.video = NoVideo,
             !.timers = IF st.timers = {} THEN {}
                        ELSE st.timers \ {CHOOSE t \in st.timers : TRUE}]

\* stopMonitoring, as a function of the state it is called in
StopEffect(st) ==
  IF scanner = "tsx"
    THEN [st EXCEPT !.ref = FALSE, !.streaming = FALSE, !.authorizing = FALSE,
                    !.timers = ClearSamplingTimer(st.timers, st.handle),
                    !.handle = 0,
                    !.video = NoVideo,
                    !.alert = FALSE, !.safe = TRUE, !.threat = Num(0)]
    ELSE [st EXCEPT !.ref = FALSE, !.streaming = FALSE, !.cooling = FALSE,
                    !.timers = ClearSamplingTimer(st.timers, st.handle),
                    !.video = NoVideo]

\* the body of stopMonitoring
StopBody ==
  /\ LET st == StopEffect(LiveState) IN
       /\ isStreamingRef' = st.ref
       /\ isStreaming' = st.streaming
       /\ isAuthorizing' = st.authorizing
       /\ timers' = st.timers
       /\ samplingTimeoutRef' = st.handle
       /\ video' = st.video
       /\ liveAlert' = st.alert
       /\ lastScanWasSafe' = st.safe
       /\ liveThreatScore' = st.threat
       /\ isCoolingDown' = st.cooling
  /\ stopped' = TRUE
  /\ inflight' = {[c EXCEPT !.stale = TRUE] : c \in inflight}
  /\ appliedRes' = NoVerdict
  /\ UNCHANGED <<invokerVars, batchVars, scanner, lsvc, isAnalyzingLive, cooldownTimers, acquiring,
                 reports, issued, startCount>>

\* the stop button, rendered while isStreaming
StopMonitoring ==
  /\ isStreaming
  /\ StopBody

\* track.onended (tsx): `if (isStreamingRef.current) stopMonitoring()`
TrackEnded ==
  /\ scanner = "tsx"
  /\ video.src
  /\ isStreamingRef
  /\ StopBody

\* the X button of the alert overlay (tsx): setLiveAlert(null)
DismissAlert ==
  /\ scanner = "tsx"
  /\ liveAlert
  /\ liveAlert' = FALSE
  /\ appliedRes' = NoVerdict
  /\ UNCHANGED <<invokerVars, batchVars, scanner, lsvc, isStreamingRef, isStreaming, isAuthorizing, isAnalyzingLive,
                 isCoolingDown, lastScanWasSafe, liveThreatScore, samplingTimeoutRef, timers,
                 cooldownTimers, acquiring, video, inflight, reports, issued, startCount,
                 stopped>>

LiveNext ==
  \/ StartMonitoring
  \/ \E q \in acquiring : AcquireResolves(q)
  \/ \E q \in acquiring : AcquireRejects(q)
  \/ VideoReady
  \/ LoadedMetadata
  \/ \E t \in timers : TimerFires(t)
  \/ \E c \in inflight, r \in LiveResponses : AnalysisResolves(c, r)
  \/ \E c \in inflight, msg \in LiveErrors(lsvc) : AnalysisRejects(c, msg)
  \/ CooldownExpires
  \/ StopMonitoring
  \/ TrackEnded
  \/ DismissAlert

-----------------------------------------------------------------------------
(* Scanner: the batch queue (processBatch).                                *)
(* The queue lives in the Scanner itself in Scanner.tsx and in App         *)
(* (verificationQueue, App.tsx line 15) in part_001; isBatchRunning is     *)
(* Scanner state in both.  App renders the Scanner only while its tab is   *)
(* the active one (App.tsx line 141), so the component can be unmounted    *)
(* and mounted again while a processBatch call is still awaiting.          *)
(* progressMsg, previewUrl and file are display data and are left out.     *)

MaxFiles == 2        \* files added in one behaviour
MaxMounts == 2       \* times the Scanner is mounted in one behaviour

MediaTypes == {"IMAGE", "VIDEO"}

\* task.error: null, or err.message of the failure ("" when the rejection
\* value is not an Error and err.message is undefined)
NoError == "null"
NoMessage == ""

\* a VerificationTask as created by the file input
NewTask(id, type) ==
  [id |-> id, type |-> type, status |-> "IDLE", result |-> NoVerdict, error |-> NoError]

\* the parsed responses the batch path is run against
BatchResponses ==
  {r \in Responses :
     r.kind = "json" /\ r.classification = "FAKE" /\ r.hasScore /\ r.authenticityScore = 12}

\* the message analyzeContent rejects with on the batch path (for the retry
\* revision the quota message stands for both of its messages)
BatchErrors(s) == IF s = "retry" THEN {QuotaMsg} ELSE {EngineMsg(s)}

\* what the extraction promise rejects with when the file cannot be
\* decoded, as err.message.  tsx: reader.onerror = reject and
\* video.onerror = (e) => reject(e) reject with an Event, which has no
\* message; part1 rejects a video with an Error and an image never.
ExtractErrors(sc, type) ==
  IF sc = "tsx" THEN {NoMessage}
  ELSE IF type = "VIDEO" THEN {"Video decode failed."}
  ELSE {}

\* the array the for-loop iterates: the tasks of the render processBatch
\* was created in, of which the loop reads id, status and metadata.type
Snapshot(ts) ==
  [i \in 1..Len(ts) |-> [id |-> ts[i].id, type |-> ts[i].type, status |-> ts[i].status]]

\* `task.status === IDLE || task.status === FAILED`, read from the snapshot
Eligible(t) == t.status \in {"IDLE", "FAILED"}

\* the next task the for-loop stops at, from index `from` on; 0 when none
NextEligible(snap, from) ==
  IF \E i \in from..Len(snap) : Eligible(snap[i])
    THEN CHOOSE i \in from..Len(snap) :
           Eligible(snap[i]) /\ \A k \in from..(i - 1) : ~Eligible(snap[k])
    ELSE 0

\* `prev.map(t => t.id === id ? { ...t, ...upd } : t)`
MapTask(ts, id, upd) ==
  [i \in 1..Len(ts) |->
     IF ts[i].id = id
       THEN [f \in DOMAIN ts[i] |-> IF f \in DOMAIN upd THEN upd[f] ELSE ts[i][f]]
       ELSE ts[i]]

\* `prev.filter(t => t.id !== id)`
RECURSIVE FilterOut(_, _)
FilterOut(ts, id) ==
  IF ts = <<>> THEN <<>>
  ELSE IF Head(ts).id = id THEN FilterOut(Tail(ts), id)
  ELSE <<Head(ts)>> \o FilterOut(Tail(ts), id)

\* the status update at the top of an iteration: tsx also clears the error
ToAnalyzing ==
  IF scanner = "tsx" THEN [status |-> "ANALYZING", error |-> NoError]
  ELSE [status |-> "ANALYZING"]

\* setTasks / setIsBatchRunning of a run reach the current state when they
\* are App's setter (part1 queue) or the run belongs to the mounted instance
ReachesQueue(run) == scanner = "part1" \/ run.inst = instance
ReachesFlag(run) == run.inst = instance

TaskOf(run) == run.snap[run.pos]

\* the rest of the loop after the task at run.pos is settled, applied to the
\* queue ts: the next eligible task of the snapshot is set ANALYZING and its
\* extraction is started, or the loop ends and setIsBatchRunning(false) runs
Continue(run, ts) ==
  LET j == NextEligible(run.snap, run.pos + 1) IN
  IF j # 0
    THEN /\ tasks' = IF ReachesQueue(run) THEN MapTask(ts, run.snap[j].id, ToAnalyzing) ELSE ts
         /\ runs' = (runs \ {run}) \cup {[run EXCEPT !.pos = j, !.phase = "extract"]}
         /\ UNCHANGED isBatchRunning
    ELSE /\ tasks' = ts
         /\ runs' = runs \ {run}
         /\ isBatchRunning' = IF ReachesFlag(run) THEN FALSE ELSE isBatchRunning

BatchInit ==
  /\ tasks = <<>>
  /\ isBatchRunning = FALSE
  /\ instance = 1
  /\ runs = {}
  /\ forwarded = [i \in 1..MaxFiles |-> 0]
  /\ nextTaskId = 0

\* the file input's onChange, with one file
AddFile(type) ==
  /\ nextTaskId < MaxFiles
  /\ nextTaskId' = nextTaskId + 1
  /\ tasks' = Append(tasks, NewTask(nextTaskId + 1, type))
  /\ UNCHANGED <<invokerVars, liveVars, isBatchRunning, instance, runs, forwarded>>

\* removeTask(id)
RemoveTask(id) ==
  /\ \E i \in 1..Len(tasks) : tasks[i].id = id
  /\ tasks' = FilterOut(tasks, id)
  /\ UNCHANGED <<invokerVars, liveVars, isBatchRunning, instance, runs, forwarded, nextTaskId>>

\* processBatch is called: the guard, and when it passes the loop up to its
\* first await (or to its end when no task of the snapshot is eligible)
ProcessBatch ==
  /\ IF isBatchRunning
       THEN UNCHANGED <<tasks, isBatchRunning, runs>>
       ELSE LET j == NextEligible(tasks, 1) IN
            IF j = 0
              THEN UNCHANGED <<tasks, isBatchRunning, runs>>
              ELSE /\ isBatchRunning' = TRUE
                   /\ tasks' = MapTask(tasks, tasks[j].id, ToAnalyzing)
                   /\ runs' = runs \cup {[inst |-> instance, snap |-> Snapshot(tasks), pos |-> j,
                                          phase |-> "extract"]}
  /\ UNCHANGED <<invokerVars, liveVars, instance, forwarded, nextTaskId>>

\* the frame or data URL is ready: analyzeContent is called and awaited
ExtractResolves(run) ==
  /\ run \in runs
  /\ run.phase = "extract"
  /\ runs' = (runs \ {run}) \cup {[run EXCEPT !.phase = "analyze"]}
  /\ UNCHANGED <<invokerVars, liveVars, tasks, isBatchRunning, instance, forwarded, nextTaskId>>

\* the extraction promise rejects: the catch block, then the loop goes on
ExtractRejects(run, msg) ==
  /\ run \in runs
  /\ run.phase = "extract"
  /\ msg \in ExtractErrors(scanner, TaskOf(run).type)
  /\ LET failed == [status |-> "FAILED", error |-> msg]
         ts == IF ReachesQueue(run) THEN MapTask(tasks, TaskOf(run).id, failed) ELSE tasks
     IN  Continue(run, ts)
  /\ UNCHANGED <<invokerVars, liveVars, instance, forwarded, nextTaskId>>

\* part1, an image: the FileReader fails; the promise has no reject path
\* and never settles
ReaderFails(run) ==
  /\ run \in runs
  /\ run.phase = "extract"
  /\ scanner = "part1"
  /\ TaskOf(run).type = "IMAGE"
  /\ runs' = (runs \ {run}) \cup {[run EXCEPT !.phase = "hung"]}
  /\ UNCHANGED <<invokerVars, liveVars, tasks, isBatchRunning, instance, forwarded, nextTaskId>>

\* analyzeContent resolves: COMPLETED, onComplete(res), then the loop goes on
BatchAnalysisResolves(run, r) ==
  /\ run \in runs
  /\ run.phase = "analyze"
  /\ Parses(r)
  /\ LET res == BuildResult(lsvc, r)
         completed == [status |-> "COMPLETED", result |-> res]
         ts == IF ReachesQueue(run) THEN MapTask(tasks, TaskOf(run).id, completed) ELSE tasks
     IN  Continue(run, ts)
  /\ forwarded' = [forwarded EXCEPT ![TaskOf(run).id] = @ + 1]
  /\ UNCHANGED <<invokerVars, liveVars, instance, nextTaskId>>

\* analyzeContent rejects: the catch block, then the loop goes on
BatchAnalysisRejects(run, msg) ==
  /\ run \in runs
  /\ run.phase = "analyze"
  /\ msg \in BatchErrors(lsvc)
  /\ LET failed == [status |-> "FAILED", error |-> msg]
         ts == IF ReachesQueue(run) THEN MapTask(tasks, TaskOf(run).id, failed) ELSE tasks
     IN  Continue(run, ts)
  /\ UNCHANGED <<invokerVars, liveVars, instance, forwarded, nextTaskId>>

\* the user leaves the scanner tab and comes back (App.tsx line 141): a new
\* Scanner instance with fresh useState values; awaiting calls go on
Remount ==
  /\ instance < MaxMounts
  /\ instance' = instance + 1
  /\ isBatchRunning' = FALSE
  /\ tasks' = IF scanner = "tsx" THEN <<>> ELSE tasks
  /\ UNCHANGED <<invokerVars, liveVars, runs, forwarded, nextTaskId>>

BatchNext ==
  \/ \E type \in MediaTypes : AddFile(type)
  \/ \E id \in 1..MaxFiles : RemoveTask(id)
  \/ ProcessBatch
  \/ \E run \in runs : ExtractResolves(run)
  \/ \E run \in runs : \E msg \in ExtractErrors(scanner, TaskOf(run).type) :
        ExtractRejects(run, msg)
  \/ \E run \in runs : ReaderFails(run)
  \/ \E run \in runs, r \in BatchResponses : BatchAnalysisResolves(run, r)
  \/ \E run \in runs, msg \in BatchErrors(lsvc) : BatchAnalysisRejects(run, msg)
  \/ Remount

-----------------------------------------------------------------------------
(* Specifications *)

InitLive == InvokerInit /\ BatchInit /\ LiveInit

SpecLive == InitLive /\ [][LiveNext]_vars

\* What happens without anybody acting: an armed timer fires, a call that
\* was issued settles, the stream delivers its metadata and a first frame.
\* Starting, stopping and answering the capture prompt are the user's.
LiveFairness ==
  /\ WF_vars(\E t \in timers : TimerFires(t))
  /\ WF_vars(CooldownExpires)
  /\ WF_vars(\/ \E c \in inflight, r \in LiveResponses : AnalysisResolves(c, r)
             \/ \E c \in inflight, msg \in LiveErrors(lsvc) : AnalysisRejects(c, msg))
  /\ WF_vars(VideoReady)
  /\ WF_vars(LoadedMetadata)

SpecLiveFair == InitLive /\ [][LiveNext]_vars /\ LiveFairness

InitInvoker == LiveInit /\ BatchInit /\ InvokerInit

SpecInvoker == InitInvoker /\ [][InvokerNext]_vars

InitBatch == InvokerInit /\ LiveInit /\ BatchInit

SpecBatch == InitBatch /\ [][BatchNext]_vars

\* a step of the run that instance i started: its extraction or its analysis
\* call settles (a read that fails without a reject path settles nothing)
RunStep(i) ==
  \E run \in runs :
    /\ run.inst = i
    /\ \/ ExtractResolves(run)
       \/ \E msg \in ExtractErrors(scanner, TaskOf(run).type) : ExtractRejects(run, msg)
       \/ ReaderFails(run)
       \/ \E r \in BatchResponses : BatchAnalysisResolves(run, r)
       \/ \E msg \in BatchErrors(lsvc) : BatchAnalysisRejects(run, msg)

\* What happens without anybody acting: the awaited read, extraction or
\* analysis of every run settles.  Adding, removing, starting a batch and
\* switching tabs are the user's.
SpecBatchFair ==
  InitBatch /\ [][BatchNext]_vars /\ \A i \in 1..MaxMounts : WF_vars(RunStep(i))


-----------------------------------------------------------------------------
(* Properties of analyzeContent, checked under SpecInvoker *)

Done == ipc = "done"
Attempts == Len(remoteLog)
AllSettled(k) == \A i \in 1..Len(settled) : settled[i] = k
FailedBefore(n, k) == \A i \in 1..n : settled[i] = k

\* C4: in the retry revision no call makes more than 1 + MAX_RETRIES = 3 remote
\* attempts, a call whose every attempt fails with a 429 is still running until
\* the third attempt has failed, and it then rejects with the quota message.
C4_QuotaAfterBudget ==
  svc = "retry" =>
    /\ Attempts <= 1 + MAX_RETRIES
    /\ (AllSettled("err429") /\ Len(settled) < 1 + MAX_RETRIES) => ~Done
    /\ (AllSettled("err429") /\ Done) =>
          /\ thrown = QuotaMsg
          /\ Attempts = 1 + MAX_RETRIES
          /\ returned = NoVerdict

C4_Witness ==
  /\ svc = "retry" /\ Done
  /\ settled = <<"err429", "err429", "err429">>
  /\ thrown = QuotaMsg

\* C5: in the retry revision, a call that has seen k <= MAX_RETRIES transient
\* failures and nothing else has not given up; when the next attempt succeeds
\* the call resolves with the result built from that attempt's response, after
\* exactly k + 1 remote attempts.
C5_SuccessAfterTransient ==
  svc = "retry" =>
    \A k \in 0..MAX_RETRIES :
      /\ (Len(settled) = k /\ AllSettled("errOther")) => (~Done /\ thrown = "")
      /\ (Len(settled) = k + 1 /\ FailedBefore(k, "errOther") /\ lastResponse.kind = "json") =>
            /\ Done
            /\ thrown = ""
            /\ returned = BuildResult("retry", lastResponse)
            /\ Attempts = k + 1
            /\ Len(sleeps) = k

C5_Witness ==
  /\ svc = "retry" /\ Done
  /\ settled = <<"errOther", "errOther", "json">>
  /\ Attempts = 3
  /\ returned = [classification |-> "FAKE", authenticityScore |-> 12, scoreIsNumber |-> TRUE]

\* C6: in the retry revision the first remote attempt uses the flash tier when
\* isLive and the pro tier otherwise, and every later attempt of the call uses
\* the flash tier.
C6_TierOnlyDegrades ==
  (svc = "retry" /\ Attempts >= 1) =>
    /\ remoteLog[1] = (IF isLive THEN Flash ELSE Pro)
    /\ \A i \in 2..Attempts : remoteLog[i] = Flash
    /\ (Attempts >= 2 => activeModel = Flash)

C6_Witness ==
  /\ svc = "retry" /\ ~isLive
  /\ remoteLog = <<Pro, Flash, Flash>>

\* C7: a response that cannot be parsed ends the call at once: it is the last
\* remote attempt, the call rejects, and neither a backoff nor the retry
\* counter is spent on it.
C7_ParseFailureIsFatal ==
  \A i \in 1..Len(settled) :
    settled[i] = "garbage" =>
      /\ i = Len(settled)
      /\ Done /\ thrown # ""
      /\ Len(sleeps) = i - 1
      /\ attempt = i - 1

\* C10: every result analyzeContent resolves with has a numeric
\* authenticityScore in 0..100: a raw score below 0 gives 0, above 100 gives
\* 100, a missing one gives 50.
C10_ScoreClamped ==
  (Done /\ thrown = "") =>
    /\ returned.scoreIsNumber
    /\ returned.authenticityScore \in 0..100
    /\ (lastResponse.hasScore /\ lastResponse.authenticityScore < 0) => returned.authenticityScore = 0
    /\ (lastResponse.hasScore /\ lastResponse.authenticityScore > 100) => returned.authenticityScore = 100
    /\ ~lastResponse.hasScore => returned.authenticityScore = 50

\* C20: in the retry revision a call that rejects has used its whole retry
\* budget, and the error it rejects with is decided by the failure of its
\* last attempt alone: the quota error when that failure was a 429, the
\* aborted (unavailable) error otherwise, whatever the earlier attempts
\* failed with.
C20_ErrorKindKept ==
  (svc = "retry" /\ Done /\ thrown # "") =>
    /\ Len(settled) = 1 + MAX_RETRIES
    /\ lastResponse.kind = settled[Len(settled)]
    /\ (settled[Len(settled)] = "err429") => (thrown = QuotaMsg)
    /\ (settled[Len(settled)] # "err429") => (thrown = AbortedMsg)

C20_Witness ==
  /\ svc = "retry" /\ Done
  /\ settled = <<"err429", "err429", "errOther">>
  /\ thrown = AbortedMsg

\* C21: a call whose last remote response had no text to parse, or a text
\* that is not JSON, rejects and returns no verdict; a call resolves only
\* from a response text that parsed.
C21_UnparsedIsFatal ==
  Done =>
    /\ lastResponse.kind \in {"empty", "garbage"} =>
          (thrown # "" /\ returned = NoVerdict)
    /\ thrown = "" => lastResponse.kind = "json"

\* `enum Classification`
Classifications == {"AUTHENTIC", "SUSPICIOUS", "FAKE"}

\* C29: every verdict analyzeContent resolves with has a classification of
\* the enum; a missing or unrecognised raw value gives SUSPICIOUS.
C29_ClassificationInEnum ==
  (Done /\ thrown = "") =>
    /\ returned.classification \in Classifications
    /\ lastResponse.classification \notin Classifications =>
          returned.classification = "SUSPICIOUS"

-----------------------------------------------------------------------------
(* Properties of the batch queue, checked under SpecBatch *)

TaskIds(ts) == {ts[i].id : i \in 1..Len(ts)}
TaskById(ts, id) == ts[CHOOSE i \in 1..Len(ts) : ts[i].id = id]

\* C11: at most one task of the queue has status ANALYZING at any time.
C11_OneAnalyzing ==
  Cardinality({i \in 1..Len(tasks) : tasks[i].status = "ANALYZING"}) <= 1

\* C12: while a processBatch run over the current queue is in progress, no
\* step starts another run: a processBatch call made then changes no task
\* and issues no call.
C12_ReentryIsNoOp ==
  [][(\E old \in runs : ReachesQueue(old)) =>
       \A run \in runs' : \E old \in runs : old.inst = run.inst]_vars

\* C13: a task's status moves only IDLE -> ANALYZING, ANALYZING -> COMPLETED,
\* ANALYZING -> FAILED, and FAILED -> ANALYZING in a run whose processBatch
\* call found the task FAILED; a COMPLETED task keeps its status.
C13_StatusTransitions ==
  [][\A id \in TaskIds(tasks) \cap TaskIds(tasks') :
       LET old == TaskById(tasks, id).status
           new == TaskById(tasks', id).status
       IN  \/ new = old
           \/ old = "IDLE" /\ new = "ANALYZING"
           \/ old = "ANALYZING" /\ new \in {"COMPLETED", "FAILED"}
           \/ /\ old = "FAILED" /\ new = "ANALYZING"
              /\ \E run \in runs' : TaskOf(run).id = id /\ TaskOf(run).status = "FAILED"]_vars

\* C14: every FAILED task carries a non-empty error message, and once no
\* run is in progress no task is left ANALYZING (a failure did not end the
\* loop before the other tasks were settled).
C14_FailureIsContained ==
  /\ \A i \in 1..Len(tasks) :
       tasks[i].status = "FAILED" => tasks[i].error \notin {NoError, NoMessage}
  /\ runs = {} => \A i \in 1..Len(tasks) : tasks[i].status # "ANALYZING"

\* C15: a COMPLETED task has had its verdict forwarded to onComplete exactly
\* once, and a FAILED task has had none forwarded.
C15_ForwardedOnce ==
  \A i \in 1..Len(tasks) :
    /\ tasks[i].status = "COMPLETED" => forwarded[tasks[i].id] = 1
    /\ tasks[i].status = "FAILED" => forwarded[tasks[i].id] = 0

\* C22: a run over the current queue begins a task's turn (its extraction,
\* then its analysis call and onComplete) only for a task that is in the
\* queue at that moment: a task removed before its turn is not started.
C22_RemovedNotStarted ==
  [][\A run \in runs' :
       (run \notin runs /\ run.phase = "extract" /\ ReachesQueue(run)) =>
          TaskOf(run).id \in TaskIds(tasks)]_vars

\* C28: every COMPLETED task has a result and no error attached, and every
\* task that has a result attached is COMPLETED.
C28_ResultIffCompleted ==
  \A i \in 1..Len(tasks) :
    /\ tasks[i].status = "COMPLETED" =>
          (tasks[i].result # NoVerdict /\ tasks[i].error = NoError)
    /\ tasks[i].result # NoVerdict => tasks[i].status = "COMPLETED"

-----------------------------------------------------------------------------
(* Properties of the live scheduler, checked under SpecLive *)

\* C1: no two live analysis requests issued in the same session are in flight
\* at the same time.
C1_NoOverlap ==
  \A c1, c2 \in inflight : (~c1.prior /\ ~c2.prior) => c1 = c2

\* C2: when a live call that was in flight when stopMonitoring ran settles,
\* and startMonitoring has not been called since, the threat score, the safe
\* flag, the alert and the persisted reports stay as stopMonitoring left them.
C2_LateResultDiscarded ==
  [][\A c \in inflight :
       (c \notin inflight' /\ c.stale /\ stopped) =>
          UNCHANGED <<liveThreatScore, lastScanWasSafe, liveAlert, reports>>]_vars

\* C3: from the return of stopMonitoring until the next startMonitoring call
\* no sampling timer is pending and no analysis request is issued.
C3_StopIsEffective ==
  /\ [](stopped => timers = {})
  /\ [][(stopped /\ stopped') => issued' = issued]_vars

\* C8: a verdict applied on the live path raises an alert (safe flag cleared,
\* verdict forwarded to onComplete, and in tsx the alert overlay set) exactly
\* when it is FAKE, or SUSPICIOUS with authenticityScore < 60; any other
\* verdict forwards nothing, sets no alert and does not clear the safe flag.
C8_AlertRule ==
  [][appliedRes' # NoVerdict =>
       LET res == appliedRes'
           alerting ==
             \/ res.classification = "FAKE"
             \/ /\ res.classification = "SUSPICIOUS"
                /\ res.scoreIsNumber
                /\ res.authenticityScore < 60
       IN  /\ alerting =>
                /\ ~lastScanWasSafe'
                /\ reports' = reports + 1
                /\ (scanner = "tsx" => liveAlert')
           /\ ~alerting =>
                /\ reports' = reports
                /\ (lastScanWasSafe => lastScanWasSafe')
                /\ (liveAlert' => liveAlert)]_vars

C8_Witness ==
  /\ appliedRes.classification = "SUSPICIOUS"
  /\ appliedRes.scoreIsNumber
  /\ appliedRes.authenticityScore = 59
  /\ ~lastScanWasSafe
  /\ reports = 2

\* C9: while the safe flag is false, an applied verdict with
\* authenticityScore <= 72 leaves it false; it becomes true only on a verdict
\* with authenticityScore > 72.
C9_Hysteresis ==
  [][(appliedRes' # NoVerdict /\ ~lastScanWasSafe /\ lastScanWasSafe') =>
       (appliedRes'.scoreIsNumber /\ appliedRes'.authenticityScore > 72)]_vars

\* C16: while the cooldown flag is set no live analysis request is issued
\* (a quota failure sets the flag; sampling pauses until it is cleared).
C16_NoSamplingInCooldown ==
  [][isCoolingDown => issued' = issued]_vars

\* C18: at most one cooldown timer is pending at any time: a quota failure
\* during a cooldown starts no second timer, so the cooldown ends once.
C18_OneCooldownTimer ==
  cooldownTimers <= 1

\* the session is running: the ref the scheduler reads and the state the
\* view is rendered from both say so
Running == isStreamingRef /\ isStreaming

\* the cycles that are pending: armed sampling timers and calls in flight
PendingCycles == Cardinality(timers) + Cardinality(inflight)

\* a sample cycle ends in this step: a sampling timer that was armed is gone,
\* or a call that was in flight has settled
CycleEnds ==
  \/ \E t \in timers : t \notin timers'
  \/ \E c \in inflight : c.id \notin {d.id : d \in inflight'}

C17_CooldownExpires ==
  /\ isCoolingDown ~> ~isCoolingDown
  /\ \A k \in 0..(MaxSamples - 1) :
       (isCoolingDown /\ Running /\ issued = k) ~> (issued > k \/ ~Running)

\* the run that instance i of the Scanner started is in progress
RunOf(i) == \E run \in runs : run.inst = i

\* C30: every processBatch run ends; the step that ends the run of the
\* mounted Scanner sets isBatchRunning to false, and once no run is in
\* progress no task is ANALYZING.
C30_BatchTerminates ==
  /\ \A i \in 1..MaxMounts : RunOf(i) ~> ~RunOf(i)
  /\ [][(RunOf(instance) /\ ~RunOf(instance)') => ~isBatchRunning']_vars
  /\ [](runs = {} => \A i \in 1..Len(tasks) : tasks[i].status # "ANALYZING")

\* C23: a cycle that runs from its timer in a running session and finds the
\* frame not ready issues no request, changes no session state, and puts
\* one timer of 1000 ms, whose handle is stored, in the place of its own.
C23_NotReadyReschedules ==
  [][\A t \in timers :
       (/\ t \notin timers'
        /\ isStreamingRef /\ isStreamingRef'
        /\ EntryGuard(t.cl, isStreamingRef, Mounted(isStreaming, isAuthorizing))
        /\ NotReady(video)) =>
          /\ issued' = issued /\ inflight' = inflight
          /\ UNCHANGED <<isStreaming, isAnalyzingLive, isCoolingDown, cooldownTimers,
                         lastScanWasSafe, liveThreatScore, liveAlert, reports>>
          /\ \E n \in timers' :
               /\ n.delay = 1000
               /\ n.id = samplingTimeoutRef'
               /\ timers' = (timers \ {t}) \cup {n}]_vars

C23_Witness ==
  /\ Running
  /\ ~video.ready
  /\ issued = 1
  /\ inflight = {}
  /\ \E t \in timers : t.delay = 1000 /\ t.id = samplingTimeoutRef

C25_ThreatScore ==
  [][appliedRes' # NoVerdict =>
       /\ ~liveThreatScore'.nan
       /\ appliedRes'.scoreIsNumber
       /\ liveThreatScore'.n = 100 - appliedRes'.authenticityScore
       /\ liveThreatScore'.n \in 0..100]_vars

\* C26: when a live call settles after stopMonitoring and then
\* startMonitoring were called since it was issued, the threat score, the
\* safe flag, the alert and the persisted reports stay as they are, and no
\* sampling timer is added.
C26_NoCrossSession ==
  [][\A c \in inflight :
       (c.id \notin {d.id : d \in inflight'} /\ c.stale /\ c.prior) =>
          UNCHANGED <<liveThreatScore, lastScanWasSafe, liveAlert, reports, timers>>]_vars

\* C27: at most one sampling timer is pending, and its handle is the one
\* stored in samplingTimeoutRef.
C27_OneStoredTimer ==
  /\ Cardinality(timers) <= 1
  /\ \A t \in timers : t.id = samplingTimeoutRef

====
